---------------------------- MODULE Spec2Model ----------------------------
(***************************************************************************)
(* A model of the Smurfing Hunter pipeline: graph construction             *)
(* (src/src/data_loader.py), feature engineering (src/src/utils.py), the   *)
(* stratified split and the 2-hop subgraph extraction (src/main.py).       *)
(*                                                                         *)
(* Wallet identities are strings; a string is modelled as the sequence of  *)
(* its character codes, so that Python's sorted() is the lexicographic     *)
(* order on sequences.  Real numbers are modelled as exact rationals       *)
(* <<numerator, denominator>>; a standard deviation is carried as its      *)
(* square (the population variance), which is zero exactly when the        *)
(* deviation is.  Timestamps are whole hours.                              *)
(***************************************************************************)
EXTENDS Integers, Sequences, FiniteSets, TLC

VARIABLES
    pc,                 \* position of the pipeline
    raised,             \* name of the exception that ended the run (or None)
    tx_df,              \* transactions table read by load_transaction_graph
    labels_df,          \* labels table read by load_transaction_graph
    tx_columns,         \* names of the columns the transactions table has
    text_amounts,       \* positions of the rows whose Amount cell is not a number
    wallet_to_idx,      \* dict wallet id -> node index
    idx_to_wallet,      \* dict node index -> wallet id
    data,               \* the PyG Data object (or None)
    features,           \* the un-normalized feature columns (or None)
    prev_wallet_to_idx, \* wallet_to_idx of the preceding build (or None)
    builds,             \* number of calls of load_transaction_graph so far
    subgraph,           \* result of extract_2hop_subgraph (or None)
    split_in,           \* arguments of a direct create_stratified_masks call
    split_out,          \* its result (or None)
    split_again,        \* result of a second call with the same arguments (or None)
    scores_df,          \* table returned by compute_suspicion_scores (or None)
    files,              \* names of the subgraph files main has written
    epoch,              \* number of the running epoch of the training loop
    weights,            \* the model's weights: the number of optimizer steps that produced them
    best_auc,           \* best_auc of the training loop
    auc_history,        \* val_auc of each finished epoch
    saves,              \* epochs in which torch.save was called
    checkpoint,         \* best_model.pt: <<>> when the file is absent, else <<weights>>
    lr,                 \* learning rate of the optimizer
    mode,               \* model.training: "train" or "eval"
    ops,                \* operations on the model in the running epoch, in program order
    eval_log,           \* the steps after the training loop, each with the weights it ran on
    disk,               \* temporary files of the upload handler that exist on disk
    paths,              \* temporary files the upload handler's path variables name
    response,           \* <<HTTP status>> the upload handler returned, <<>> before it returns
    num_bad_epochs,     \* ReduceLROnPlateau.num_bad_epochs
    sched_best,         \* ReduceLROnPlateau.best: <<>> for -inf, else <<value>>
    score_in,           \* arguments of a direct calculate_suspicion_score call
    score_out           \* its result (or None)

graphVars == <<tx_df, labels_df, tx_columns, text_amounts, wallet_to_idx, idx_to_wallet, data, features, prev_wallet_to_idx, builds>>
splitVars == <<split_in, split_out, split_again>>
trainVars == <<epoch, weights, best_auc, auc_history, saves, checkpoint, lr, num_bad_epochs, sched_best, mode, ops, eval_log>>
scoreVars == <<score_in, score_out>>
uploadVars == <<disk, paths, response>>

vars == <<pc, raised, graphVars, subgraph, splitVars, scores_df, files, trainVars, scoreVars, uploadVars>>

None == "None"

----------------------------------------------------------------------------
(* Bounds of the model *)

\* rows of a transactions table whose timestamps and amounts vary
MaxTx == 2
\* rows of a transactions table whose rows all carry the same timestamp and amount
PlainMaxTx == 2
\* rows of the transactions table of the first of two builds
FirstMaxTx == 1
\* rows of the labels table read together with a transactions table
MaxLabels == 1
\* rows of a labels table read together with an empty transactions table
LongMaxLabels == 2
\* rows of a transactions table that may lack columns or hold text in the Amount column
MalformedMaxTx == 1
\* epochs of the training loop (--epochs)
MaxEpochs == 3
\* nodes of the vectors handed to calculate_suspicion_score directly
MaxScoreNodes == 2
\* largest in-degree and out-degree in those vectors
MaxDegree == 2
\* length of the label vector handed to create_stratified_masks directly
MaxNodes == 4
\* ratios handed to create_stratified_masks are k / RatioDen
RatioDen == 5

\* wallet ids "a", "ab", "b"
Wallets == {<<1>>, <<1, 2>>, <<2>>}
Timestamps == {0, 2}
Amounts == {1, 3}
Labels == {0, 1}

TxRows == [Source_Wallet_ID : Wallets, Dest_Wallet_ID : Wallets, Timestamp : Timestamps, Amount : Amounts]
PlainTxRows == [Source_Wallet_ID : Wallets, Dest_Wallet_ID : Wallets, Timestamp : {0}, Amount : {1}]
LabelRows == [Wallet_ID : Wallets, Label : Labels]

SeqsUpTo(S, n) == UNION {[1..k -> S] : k \in 0..n}

TxTables == SeqsUpTo(TxRows, MaxTx)
LabelTables == SeqsUpTo(LabelRows, MaxLabels)
PlainTxTables == SeqsUpTo(PlainTxRows, PlainMaxTx)
LongLabelTables == SeqsUpTo(LabelRows, LongMaxLabels)

\* the pairs of tables a run of the pipeline reads: plain transactions with a short
\* labels table, or labels alone (with repeated wallet ids among them)
GraphInputs == (PlainTxTables \X LabelTables) \cup ({<<>>} \X LongLabelTables)
\* the pairs of tables the feature engine is run on: varied transactions, no labels
FeatureInputs == TxTables \X {<<>>}
\* the pairs of tables of two builds in a row: transactions alone, then labels alone
FirstInputs == SeqsUpTo(PlainTxRows, FirstMaxTx) \X {<<>>}
SecondInputs == {<<>>} \X LongLabelTables

----------------------------------------------------------------------------
(* Helpers: sequences, rationals, Python slicing *)

Min(a, b) == IF a < b THEN a ELSE b

RECURSIVE SumSeq(_)
SumSeq(s) == IF s = <<>> THEN 0 ELSE Head(s) + SumSeq(Tail(s))

RECURSIVE SumSq(_)
SumSq(s) == IF s = <<>> THEN 0 ELSE Head(s) * Head(s) + SumSq(Tail(s))

\* the sum of f over the index range 0..n-1
RECURSIVE SumFun(_, _)
SumFun(f, n) == IF n = 0 THEN 0 ELSE f[n - 1] + SumFun(f, n - 1)

Zero == <<0, 1>>
One == <<1, 1>>
Half == <<1, 2>>
\* a float NaN: 0/0, which every ordered comparison below answers with FALSE
NaN == <<0, 0>>
RatEq(p, q) == p[1] * q[2] = q[1] * p[2]
\* p < q and p <= q for denominators >= 0
RatLess(p, q) == p[1] * q[2] < q[1] * p[2]
RatLeq(p, q) == ~(p[2] = 0 \/ q[2] = 0) /\ p[1] * q[2] <= q[1] * p[2]
RatAdd(p, q) == <<p[1] * q[2] + q[1] * p[2], p[2] * q[2]>>
RatMul(p, q) == <<p[1] * q[1], p[2] * q[2]>>

\* np.mean of a non-empty list
np_mean(s) == <<SumSeq(s), Len(s)>>
\* np.std of a non-empty list (population, ddof = 0), carried as its square
np_std(s) == <<Len(s) * SumSq(s) - SumSeq(s) * SumSeq(s), Len(s) * Len(s)>>

\* s[lo:hi] for 0 <= lo, 0 <= hi
PySlice(s, lo, hi) == SubSeq(s, Min(lo, Len(s)) + 1, Min(hi, Len(s)))

\* the values of a column, in row order
Column(df, c) == [i \in 1..Len(df) |-> df[i][c]]
Range(s) == {s[i] : i \in 1..Len(s)}

\* string comparison a < b of Python: lexicographic on the character codes
RECURSIVE LexLess(_, _)
LexLess(a, b) == IF b = <<>> THEN FALSE ELSE IF a = <<>> THEN TRUE ELSE IF a[1] # b[1] THEN a[1] < b[1] ELSE LexLess(Tail(a), Tail(b))

\* sorted(S) of a set of strings
RECURSIVE sorted(_)
sorted(S) == IF S = {} THEN <<>> ELSE LET m == CHOOSE x \in S : \A z \in S \ {x} : LexLess(x, z) IN <<m>> \o sorted(S \ {m})

\* ascending sort of a list of integers (Series.sort_values)
RECURSIVE sort_values(_)
sort_values(s) == IF s = <<>> THEN <<>> ELSE LET i == CHOOSE j \in 1..Len(s) : \A k \in 1..Len(s) : s[j] <= s[k] IN <<s[i]>> \o sort_values(SubSeq(s, 1, i - 1) \o SubSeq(s, i + 1, Len(s)))

----------------------------------------------------------------------------
(* src/src/data_loader.py: the wallet vocabulary and the index maps *)

\* a vocabulary that leaves out the ids of the labels table
AllWalletsTxOnly(tx, lb) == Range(Column(tx, "Source_Wallet_ID")) \cup Range(Column(tx, "Dest_Wallet_ID"))

\* data_loader.py 45-47
all_wallets(tx, lb) == Range(Column(tx, "Source_Wallet_ID")) \cup Range(Column(tx, "Dest_Wallet_ID")) \cup Range(Column(lb, "Wallet_ID"))

\* the list of distinct ids in order of first appearance (sources, destinations, labels)
RECURSIVE Distinct(_)
Distinct(s) == IF s = <<>> THEN <<>> ELSE LET r == Distinct(SubSeq(s, 1, Len(s) - 1)) IN IF s[Len(s)] \in Range(r) THEN r ELSE Append(r, s[Len(s)])

Enumerate(order) == [w \in Range(order) |-> (CHOOSE i \in 1..Len(order) : order[i] = w) - 1]

\* a build that numbers the wallets in order of first appearance (no sort)
WalletToIdxUnsorted(tx, lb) == Enumerate(Distinct(Column(tx, "Source_Wallet_ID") \o Column(tx, "Dest_Wallet_ID") \o Column(lb, "Wallet_ID")))

\* a build that enumerates the sorted list of all ids without removing repetitions:
\* each wallet keeps the position of its last occurrence
WalletToIdxNoDedup(tx, lb) == LET ids == Column(tx, "Source_Wallet_ID") \o Column(tx, "Dest_Wallet_ID") \o Column(lb, "Wallet_ID") IN [w \in Range(ids) |-> Cardinality({k \in 1..Len(ids) : LexLess(ids[k], w) \/ ids[k] = w}) - 1]

\* data_loader.py 49: {w: i for i, w in enumerate(sorted(all_wallets))}
WalletToIdx(tx, lb) == Enumerate(sorted(all_wallets(tx, lb)))

\* data_loader.py 50: {i: w for w, i in wallet_to_idx.items()}
IdxToWallet(w2i) == [i \in {w2i[w] : w \in DOMAIN w2i} |-> CHOOSE w \in DOMAIN w2i : w2i[w] = i]

\* data_loader.py 57-63: the [2, E] edge tensor, row 1 the sources, row 2 the destinations
EdgeIndex(tx, w2i) == <<[i \in 1..Len(tx) |-> w2i[tx[i].Source_Wallet_ID]], [i \in 1..Len(tx) |-> w2i[tx[i].Dest_Wallet_ID]]>>


\* a label vector that marks every listed wallet as illicit, whatever its Label
BuildLabelsMarkListed(y, lb, w2i) == [i \in DOMAIN y |-> IF \E k \in 1..Len(lb) : lb[k].Wallet_ID \in DOMAIN w2i /\ w2i[lb[k].Wallet_ID] = i THEN 1 ELSE y[i]]

\* data_loader.py 67-70: zeros, then one assignment per row of the labels table
RECURSIVE BuildLabels(_, _, _)
BuildLabels(y, lb, w2i) == IF lb = <<>> THEN y ELSE LET row == Head(lb) IN BuildLabels(IF row.Wallet_ID \in DOMAIN w2i THEN [y EXCEPT ![w2i[row.Wallet_ID]] = row.Label] ELSE y, Tail(lb), w2i)

----------------------------------------------------------------------------
(* src/src/utils.py: the feature engine *)

\* tensor.scatter_add_(0, index, ones): one is added at acc[index[i]] for every i
RECURSIVE scatter_add_ones(_, _)
scatter_add_ones(acc, index) == IF index = <<>> THEN acc ELSE scatter_add_ones([acc EXCEPT ![Head(index)] = @ + 1], Tail(index))

zeros(n) == [i \in 0..(n - 1) |-> 0]

\* degrees that count the distinct neighbours instead of the edges
DegreeFeaturesDistinct(edge_index, num_nodes) == LET E == Len(edge_index[1]) IN <<[i \in 0..(num_nodes - 1) |-> Cardinality({edge_index[1][e] : e \in {e \in 1..E : edge_index[2][e] = i}})], [i \in 0..(num_nodes - 1) |-> Cardinality({edge_index[2][e] : e \in {e \in 1..E : edge_index[1][e] = i}})]>>

\* utils.py 15-44; returns <<in_degree, out_degree>>
calculate_degree_features(edge_index, num_nodes) == LET source_nodes == edge_index[1]  dest_nodes == edge_index[2] IN <<scatter_add_ones(zeros(num_nodes), dest_nodes), scatter_add_ones(zeros(num_nodes), source_nodes)>>

\* the rows of one group of transactions_df.groupby(key), in row order
Group(tx, key, wallet_id) == SelectSeq(tx, LAMBDA row : row[key] = wallet_id)

\* timestamps.diff().dropna() of a sorted list: the consecutive gaps
Diff(ts) == [i \in 1..(Len(ts) - 1) |-> ts[i + 1] - ts[i]]

\* utils.py 75-83: the gaps recorded for one wallet (the defaultdict yields [] otherwise)
TimeDeltas(tx, key, wallet_id) == LET timestamps == sort_values(Column(Group(tx, key, wallet_id), "Timestamp")) IN IF Len(timestamps) > 1 THEN Diff(timestamps) ELSE <<>>

\* utils.py 47-94 with the grouping column as a parameter; returns <<time_delta_mean, time_delta_std>>
TimeDeltaFeaturesBy(tx, w2i, num_nodes, key) == LET grouped == {w \in Range(Column(tx, key)) : w \in DOMAIN w2i}  walletOf(i) == CHOOSE w \in DOMAIN w2i : w2i[w] = i  has(i) == i \in {w2i[w] : w \in grouped} /\ Len(TimeDeltas(tx, key, walletOf(i))) > 0 IN <<[i \in 0..(num_nodes - 1) |-> IF has(i) THEN np_mean(TimeDeltas(tx, key, walletOf(i))) ELSE Zero], [i \in 0..(num_nodes - 1) |-> IF has(i) /\ Len(TimeDeltas(tx, key, walletOf(i))) > 1 THEN np_std(TimeDeltas(tx, key, walletOf(i))) ELSE Zero]>>

\* the same computation grouped by the receiving wallet
TimeDeltaFeaturesByDest(tx, w2i, num_nodes) == TimeDeltaFeaturesBy(tx, w2i, num_nodes, "Dest_Wallet_ID")

\* utils.py 47-94
calculate_time_delta_features(tx, w2i, num_nodes) == TimeDeltaFeaturesBy(tx, w2i, num_nodes, "Source_Wallet_ID")

\* utils.py 97-130 with the grouping column as a parameter; returns <<amount_mean, amount_std>>
AmountFeaturesBy(tx, w2i, num_nodes, key) == LET grouped == {w \in Range(Column(tx, key)) : w \in DOMAIN w2i}  walletOf(i) == CHOOSE w \in DOMAIN w2i : w2i[w] = i  has(i) == i \in {w2i[w] : w \in grouped}  amounts(i) == Column(Group(tx, key, walletOf(i)), "Amount") IN <<[i \in 0..(num_nodes - 1) |-> IF has(i) THEN np_mean(amounts(i)) ELSE Zero], [i \in 0..(num_nodes - 1) |-> IF has(i) /\ Len(amounts(i)) > 1 THEN np_std(amounts(i)) ELSE Zero]>>

\* the same computation grouped by the receiving wallet
AmountFeaturesByDest(tx, w2i, num_nodes) == AmountFeaturesBy(tx, w2i, num_nodes, "Dest_Wallet_ID")

\* utils.py 97-130
calculate_amount_features(tx, w2i, num_nodes) == AmountFeaturesBy(tx, w2i, num_nodes, "Source_Wallet_ID")

\* utils.py 133-174: the six columns before normalize_features
compute_node_features(edge_index, tx, w2i, num_nodes) == LET deg == calculate_degree_features(edge_index, num_nodes)  tm == calculate_time_delta_features(tx, w2i, num_nodes)  am == calculate_amount_features(tx, w2i, num_nodes) IN [in_degree |-> deg[1], out_degree |-> deg[2], time_mean |-> tm[1], time_std |-> tm[2], amount_mean |-> am[1], amount_std |-> am[2]]

\* the number of feature columns stacked at utils.py 167-174
NumFeatures == 6

----------------------------------------------------------------------------
(* src/src/utils.py: the composite suspicion score *)

\* utils.py 226: the guard added to the denominator
Eps == <<1, 100000000>>

\* tensor.max() of a vector indexed 0..n-1, n >= 1
MaxOf(f) == CHOOSE m \in {f[i] : i \in DOMAIN f} : \A i \in DOMAIN f : f[i] <= m

\* torch.clamp(x, lo, hi)
clamp(x, lo, hi) == IF RatLess(x, lo) THEN lo ELSE IF RatLess(hi, x) THEN hi ELSE x

\* utils.py 226: (in_degree + out_degree) / (in_degree.max() + out_degree.max() + 1e-8).
\* The tensors are float32 (utils.py 37-42), where a sum of degrees >= 1 plus 1e-8 is
\* that sum again; only an all-zero denominator is replaced by the guard.
degree_anomaly(in_degree, out_degree) == LET M == MaxOf(in_degree) + MaxOf(out_degree) IN [i \in DOMAIN in_degree |-> IF M = 0 THEN RatMul(<<in_degree[i] + out_degree[i], 1>>, <<Eps[2], Eps[1]>>) ELSE <<in_degree[i] + out_degree[i], M>>]

\* a score whose boost is not clamped
ScoreUnclamped(probs, in_degree, out_degree, degree_weight) == IF Len(in_degree) > 0 /\ Len(out_degree) > 0 THEN [i \in DOMAIN probs |-> RatAdd(probs[i], RatMul(degree_weight, degree_anomaly(in_degree[1], out_degree[1])[i]))] ELSE probs

\* a score from which the boost is subtracted
ScoreMinusBoost(probs, in_degree, out_degree, degree_weight) == IF Len(in_degree) > 0 /\ Len(out_degree) > 0 THEN [i \in DOMAIN probs |-> clamp(RatAdd(probs[i], RatMul(<<0 - degree_weight[1], degree_weight[2]>>, degree_anomaly(in_degree[1], out_degree[1])[i])), Zero, One)] ELSE probs

\* utils.py 202-230.  An optional tensor is <<>> for None and <<tensor>> otherwise.
calculate_suspicion_score(probs, in_degree, out_degree, degree_weight) == IF Len(in_degree) > 0 /\ Len(out_degree) > 0 THEN [i \in DOMAIN probs |-> clamp(RatAdd(probs[i], RatMul(degree_weight, degree_anomaly(in_degree[1], out_degree[1])[i])), Zero, One)] ELSE probs

----------------------------------------------------------------------------
(* src/src/data_loader.py: the stratified split *)

\* int(n * ratio) for a ratio <<k, d>> >= 0
PyInt(n, ratio) == (n * ratio[1]) \div ratio[2]

\* the ascending list of a set of integers (nonzero() of a boolean tensor)
RECURSIVE Ascending(_)
Ascending(S) == IF S = {} THEN <<>> ELSE LET m == CHOOSE x \in S : \A z \in S : x <= z IN <<m>> \o Ascending(S \ {m})

\* the values torch.randperm(n) can return
randperm(n) == {p \in [1..n -> 1..n] : \A i, j \in 1..n : p[i] = p[j] => i = j}

\* mask[indices] = True
SetTrue(mask, indices) == [i \in DOMAIN mask |-> mask[i] \/ i \in Range(indices)]

\* a split whose test slice starts at n_train instead of n_train + n_val
SplitClassTestFromTrain(masks, label_indices, train_ratio, val_ratio) == LET n == Len(label_indices)  n_train == PyInt(n, train_ratio)  n_val == PyInt(n, val_ratio) IN [train_mask |-> SetTrue(masks.train_mask, PySlice(label_indices, 0, n_train)), val_mask |-> SetTrue(masks.val_mask, PySlice(label_indices, n_train, n_train + n_val)), test_mask |-> SetTrue(masks.test_mask, PySlice(label_indices, n_train, n))]

\* a split whose val slice ends at n_val instead of n_train + n_val
SplitClassValEnd(masks, label_indices, train_ratio, val_ratio) == LET n == Len(label_indices)  n_train == PyInt(n, train_ratio)  n_val == PyInt(n, val_ratio) IN [train_mask |-> SetTrue(masks.train_mask, PySlice(label_indices, 0, n_train)), val_mask |-> SetTrue(masks.val_mask, PySlice(label_indices, n_train, n_val)), test_mask |-> SetTrue(masks.test_mask, PySlice(label_indices, n_train + n_val, n))]

\* data_loader.py 136-148: the three slices of one class, label_indices being already shuffled
SplitClass(masks, label_indices, train_ratio, val_ratio) == LET n == Len(label_indices)  n_train == PyInt(n, train_ratio)  n_val == PyInt(n, val_ratio) IN [train_mask |-> SetTrue(masks.train_mask, PySlice(label_indices, 0, n_train)), val_mask |-> SetTrue(masks.val_mask, PySlice(label_indices, n_train, n_train + n_val)), test_mask |-> SetTrue(masks.test_mask, PySlice(label_indices, n_train + n_val, n))]

\* data_loader.py 134-148: the loop over y.unique(); every value of randperm is a possible run
RECURSIVE StratifyLoop(_, _, _, _, _)
StratifyLoop(y, labels_left, masks, train_ratio, val_ratio) == IF labels_left = {} THEN {masks} ELSE LET label == CHOOSE l \in labels_left : \A m \in labels_left : l <= m  label_indices == Ascending({i \in DOMAIN y : y[i] = label})  n == Len(label_indices) IN UNION {StratifyLoop(y, labels_left \ {label}, SplitClass(masks, [k \in 1..n |-> label_indices[perm[k]]], train_ratio, val_ratio), train_ratio, val_ratio) : perm \in randperm(n)}

\* data_loader.py 111-150: the set of results create_stratified_masks can return
create_stratified_masks(y, train_ratio, val_ratio) == LET false == [i \in DOMAIN y |-> FALSE] IN StratifyLoop(y, {y[i] : i \in DOMAIN y}, [train_mask |-> false, val_mask |-> false, test_mask |-> false], train_ratio, val_ratio)

\* data_loader.py 92: train_ratio=0.6, val_ratio=0.2
DefaultTrainRatio == <<6, 10>>
DefaultValRatio == <<2, 10>>

----------------------------------------------------------------------------
(* torch_geometric.utils.k_hop_subgraph as called at src/main.py 138-144 *)
(* (flow = 'source_to_target', directed = False, relabel_nodes = True)     *)

\* one round of the hop loop: the sources of the edges whose destination is in the frontier
Hop(frontier, edge_index) == {edge_index[1][e] : e \in {e \in 1..Len(edge_index[1]) : edge_index[2][e] \in frontier}}

\* subsets[-1] after the given number of rounds
RECURSIVE Frontier(_, _, _)
Frontier(node_idx, hops, edge_index) == IF hops = 0 THEN {node_idx} ELSE Hop(Frontier(node_idx, hops - 1, edge_index), edge_index)

\* a k_hop_subgraph that keeps only the edges pointing at the target
KHopEdgesIntoTarget(node_idx, num_hops, edge_index, num_nodes) == LET subset == Ascending(UNION {Frontier(node_idx, h, edge_index) : h \in 0..num_hops})  node_mask == [i \in 0..(num_nodes - 1) |-> i \in Range(subset)]  E == Len(edge_index[1])  edge_mask == [e \in 1..E |-> node_mask[edge_index[1][e]] /\ edge_index[2][e] = node_idx]  kept == Ascending({e \in 1..E : edge_mask[e]})  mapping(i) == (CHOOSE k \in 1..Len(subset) : subset[k] = i) - 1 IN [subset |-> subset, edge_index |-> <<[k \in 1..Len(kept) |-> mapping(edge_index[1][kept[k]])], [k \in 1..Len(kept) |-> mapping(edge_index[2][kept[k]])]>>, mapping |-> mapping(node_idx), edge_mask |-> edge_mask]

\* returns subset (ascending, unique), the relabelled edge tensor, the position of node_idx in subset, and edge_mask
k_hop_subgraph(node_idx, num_hops, edge_index, num_nodes) == LET subset == Ascending(UNION {Frontier(node_idx, h, edge_index) : h \in 0..num_hops})  node_mask == [i \in 0..(num_nodes - 1) |-> i \in Range(subset)]  E == Len(edge_index[1])  edge_mask == [e \in 1..E |-> node_mask[edge_index[2][e]] /\ node_mask[edge_index[1][e]]]  kept == Ascending({e \in 1..E : edge_mask[e]})  mapping(i) == (CHOOSE k \in 1..Len(subset) : subset[k] = i) - 1 IN [subset |-> subset, edge_index |-> <<[k \in 1..Len(kept) |-> mapping(edge_index[1][kept[k]])], [k \in 1..Len(kept) |-> mapping(edge_index[2][kept[k]])]>>, mapping |-> mapping(node_idx), edge_mask |-> edge_mask]

\* main.py 140: num_hops=2
NumHops == 2

\* a target id that is in no table
UnknownWallet == <<3>>

----------------------------------------------------------------------------
(* The pipeline *)

NoSplit == [y |-> None, train_ratio |-> None, val_ratio |-> None]
NoScore == [probs |-> None, in_degree |-> None, out_degree |-> None, degree_weight |-> None]

\* main.py 175: --lr defaults to 0.01
InitialLr == <<1, 100>>

\* main.py 203-222 before the first epoch: a fresh model, optimizer and scheduler,
\* best_auc = 0, and no best_model.pt in the working directory
NoTraining == /\ epoch = 0
              /\ weights = 0
              /\ best_auc = Zero
              /\ auc_history = <<>>
              /\ saves = {}
              /\ checkpoint = <<>>
              /\ lr = InitialLr
              /\ num_bad_epochs = 0
              /\ sched_best = <<>>
              /\ mode = "train"
              /\ ops = <<>>
              /\ eval_log = <<>>

NoUpload == disk = {} /\ paths = {} /\ response = <<>>

NoScoreCall == score_in = NoScore /\ score_out = None

Init == /\ pc = "start"
        /\ tx_df = None
        /\ labels_df = None
        /\ tx_columns = {}
        /\ text_amounts = {}
        /\ raised = None
        /\ wallet_to_idx = None
        /\ idx_to_wallet = None
        /\ data = None
        /\ features = None
        /\ prev_wallet_to_idx = None
        /\ builds = 0
        /\ subgraph = None
        /\ split_in = NoSplit
        /\ split_out = None
        /\ split_again = None
        /\ NoUpload
        /\ scores_df = None
        /\ files = {}
        /\ NoTraining
        /\ NoScoreCall

\* the columns load_transaction_graph and the feature engine read from the transactions table
RequiredColumns == {"Source_Wallet_ID", "Dest_Wallet_ID", "Timestamp", "Amount"}

\* the exception the load raises, or None: the first failing statement in program order.
\* data_loader.py 45-46 index the two wallet columns (KeyError); line 73 divides by
\* num_nodes (ZeroDivisionError); utils.py 68 indexes Timestamp (KeyError); utils.py 124
\* indexes Amount once per group of rows (KeyError) and line 127 takes np.mean of the
\* group's cells (TypeError on text).
LoadError(columns, tx, text, num_nodes) ==
    IF ~({"Source_Wallet_ID", "Dest_Wallet_ID"} \subseteq columns) THEN "KeyError"
    ELSE IF num_nodes = 0 THEN "ZeroDivisionError"
    ELSE IF "Timestamp" \notin columns THEN "KeyError"
    ELSE IF Len(tx) > 0 /\ "Amount" \notin columns THEN "KeyError"
    ELSE IF text # {} THEN "TypeError"
    ELSE None

\* data_loader.py 18-108 on a transactions table with the given columns, rows and
\* text cells in the Amount column.  A raised exception returns no graph.
LoadTable(columns, tx, text, lb) ==
    LET w2i == WalletToIdx(tx, lb)
        num_nodes == Cardinality(DOMAIN w2i)
        edge_index == EdgeIndex(tx, w2i)
        y == BuildLabels(zeros(num_nodes), lb, w2i)
        error == LoadError(columns, tx, text, num_nodes)
    IN /\ tx_df' = tx
       /\ labels_df' = lb
       /\ tx_columns' = columns
       /\ text_amounts' = text
       /\ raised' = error
       /\ subgraph' = None
       /\ builds' = builds + 1
       /\ UNCHANGED <<splitVars, scores_df, files, trainVars, scoreVars, uploadVars>>
       /\ IF error # None
          THEN /\ pc' = "load_failed"
               /\ wallet_to_idx' = None
               /\ idx_to_wallet' = None
               /\ data' = None
               /\ features' = None
          ELSE /\ pc' = "loaded"
               /\ wallet_to_idx' = w2i
               /\ idx_to_wallet' = IdxToWallet(w2i)
               /\ features' = compute_node_features(edge_index, tx, w2i, num_nodes)
               /\ \E masks \in create_stratified_masks(y, DefaultTrainRatio, DefaultValRatio) :
                     data' = [x_shape |-> <<num_nodes, NumFeatures>>, edge_index |-> edge_index, y |-> y, train_mask |-> masks.train_mask, val_mask |-> masks.val_mask, test_mask |-> masks.test_mask, num_nodes |-> num_nodes]

\* the load of a well-formed transactions table: every column, every amount a number
LoadGraph(tx, lb) == LoadTable(RequiredColumns, tx, {}, lb)

\* main.py 198: the one build of a run
load_transaction_graph ==
    /\ pc = "start"
    /\ \E in \in GraphInputs : LoadGraph(in[1], in[2])
    /\ UNCHANGED prev_wallet_to_idx

Extract2HopRelabelsData(target_wallet_id) ==
    /\ pc \in {"loaded", "final_scored"}
    /\ pc' = "extracted"
    /\ IF target_wallet_id \notin DOMAIN wallet_to_idx
       THEN subgraph' = [target |-> target_wallet_id, nodes |-> None, edges |-> None, node_labels |-> None]
       ELSE LET target_idx == wallet_to_idx[target_wallet_id]
                r == k_hop_subgraph(target_idx, NumHops, data.edge_index, data.num_nodes)
                subset == r.subset
                sub_edge_index == r.edge_index
            IN subgraph' = [target |-> target_wallet_id,
                            nodes |-> [k \in 1..Len(subset) |-> idx_to_wallet[subset[k]]],
                            edges |-> [i \in 1..Len(sub_edge_index[1]) |-> <<idx_to_wallet[subset[sub_edge_index[1][i] + 1]], idx_to_wallet[subset[sub_edge_index[2][i] + 1]]>>],
                            node_labels |-> [w \in {idx_to_wallet[subset[k]] : k \in 1..Len(subset)} |-> data.y[CHOOSE i \in Range(subset) : idx_to_wallet[i] = w]]]
    /\ IF target_wallet_id \notin DOMAIN wallet_to_idx
       THEN data' = data
       ELSE data' = [data EXCEPT !.edge_index = k_hop_subgraph(wallet_to_idx[target_wallet_id], NumHops, data.edge_index, data.num_nodes).edge_index]
    /\ UNCHANGED <<raised, tx_df, labels_df, tx_columns, text_amounts, wallet_to_idx, idx_to_wallet, features, prev_wallet_to_idx, builds, splitVars, scores_df, files, trainVars, scoreVars, uploadVars>>

\* main.py 116-169
extract_2hop_subgraph(target_wallet_id) ==
    /\ pc \in {"loaded", "final_scored"}
    /\ pc' = "extracted"
    /\ IF target_wallet_id \notin DOMAIN wallet_to_idx
       THEN subgraph' = [target |-> target_wallet_id, nodes |-> None, edges |-> None, node_labels |-> None]
       ELSE LET target_idx == wallet_to_idx[target_wallet_id]
                r == k_hop_subgraph(target_idx, NumHops, data.edge_index, data.num_nodes)
                subset == r.subset
                sub_edge_index == r.edge_index
            IN subgraph' = [target |-> target_wallet_id,
                            nodes |-> [k \in 1..Len(subset) |-> idx_to_wallet[subset[k]]],
                            edges |-> [i \in 1..Len(sub_edge_index[1]) |-> <<idx_to_wallet[subset[sub_edge_index[1][i] + 1]], idx_to_wallet[subset[sub_edge_index[2][i] + 1]]>>],
                            node_labels |-> [w \in {idx_to_wallet[subset[k]] : k \in 1..Len(subset)} |-> data.y[CHOOSE i \in Range(subset) : idx_to_wallet[i] = w]]]
    /\ UNCHANGED <<raised, graphVars, splitVars, scores_df, files, trainVars, scoreVars, uploadVars>>

\* main.py 266-271: --extract_subgraph names any wallet id
ExtractSubgraph == \E t \in Wallets \cup {UnknownWallet} : extract_2hop_subgraph(t)

\* class-1 probabilities the softmax of a model's output can take on a node
ProbLevels == {<<1, 4>>, Half, <<3, 4>>}

\* the class-1 probability vectors a forward pass can return.  normalize_features
\* (utils.py 193-199) takes the unbiased std over the nodes, which is NaN for a graph
\* of one node, so that x, the model's output and the softmax are NaN there.
ForwardPass(num_nodes) == IF num_nodes = 1 THEN {[i \in {0} |-> NaN]} ELSE [0..(num_nodes - 1) -> ProbLevels]

\* a prediction that also counts a score of exactly 0.5 as illicit
PredictedLabelAtLeast(score) == IF RatLeq(Half, score) THEN 1 ELSE 0

\* main.py 101: 1 if suspicion_scores[idx] > 0.5 else 0
PredictedLabel(score) == IF RatLess(Half, score) THEN 1 ELSE 0

\* removes the i-th element of a list
Without(rows, i) == SubSeq(rows, 1, i - 1) \o SubSeq(rows, i + 1, Len(rows))

\* the orders df.sort_values('Suspicion_Score', ascending=False) can return: the
\* largest score first, ties in any order (quicksort is not stable), NaN last
RECURSIVE SortDescending(_)
SortDescending(rows) == IF rows = <<>> THEN {<<>>} ELSE LET first == {i \in 1..Len(rows) : \A k \in 1..Len(rows) : ~RatLess(rows[i].Suspicion_Score, rows[k].Suspicion_Score) /\ (rows[i].Suspicion_Score = NaN => rows[k].Suspicion_Score = NaN)} IN UNION {{<<rows[i]>> \o rest : rest \in SortDescending(Without(rows, i))} : i \in first}

\* main.py 79-113
compute_suspicion_scores ==
    /\ pc = "loaded"
    /\ pc' = "scored"
    /\ \E suspicion_scores \in ForwardPass(data.num_nodes) :
          LET results == [k \in 1..data.num_nodes |-> [Wallet_ID |-> idx_to_wallet[k - 1], Suspicion_Score |-> suspicion_scores[k - 1], Predicted_Label |-> PredictedLabel(suspicion_scores[k - 1]), True_Label |-> data.y[k - 1]]]
          IN scores_df' \in SortDescending(results)
    /\ UNCHANGED <<raised, graphVars, subgraph, splitVars, files, trainVars, scoreVars, uploadVars>>

\* the names of the two files main.py 275-280 writes for a target
SubgraphFiles(target) == {<<"subgraph", target, "nodes.csv">>, <<"subgraph", target, "edges.csv">>}

\* a caller that writes the two files whatever the extraction returned
SaveSubgraphAlways ==
    /\ pc = "extracted"
    /\ pc' = "done"
    /\ files' = files \cup SubgraphFiles(subgraph.target)
    /\ UNCHANGED <<raised, graphVars, subgraph, splitVars, scores_df, trainVars, scoreVars, uploadVars>>

\* main.py 273-281: "if nodes:" guards both to_csv calls; nodes is None or a list
SaveSubgraph ==
    /\ pc = "extracted"
    /\ pc' = "done"
    /\ IF subgraph.target \in DOMAIN wallet_to_idx /\ Len(subgraph.nodes) > 0
       THEN files' = files \cup SubgraphFiles(subgraph.target)
       ELSE files' = files
    /\ UNCHANGED <<raised, graphVars, subgraph, splitVars, scores_df, trainVars, scoreVars, uploadVars>>

Next == load_transaction_graph \/ ExtractSubgraph \/ SaveSubgraph

Spec == Init /\ [][Next]_vars

----------------------------------------------------------------------------
(* The graph build followed by the scoring (main.py 198 and 263, api_server.py) *)

\* the pairs of tables the scoring is run on: a short plain transactions table with a
\* short labels table
TableInputs == SeqsUpTo(PlainTxRows, FirstMaxTx) \X LabelTables

LoadForScores ==
    /\ pc = "start"
    /\ \E in \in TableInputs : LoadGraph(in[1], in[2])
    /\ UNCHANGED prev_wallet_to_idx

NextTable == LoadForScores \/ compute_suspicion_scores

SpecTable == Init /\ [][NextTable]_vars

----------------------------------------------------------------------------
(* src/main.py: evaluate, the scheduler and the training loop *)

\* sklearn's roc_auc_score raises ValueError unless y_true holds both classes
AucDefined(y_true) == 0 \in Range(y_true) /\ 1 \in Range(y_true)

\* roc_auc_score(y_true, probs): the share of (illicit, normal) pairs ranked in the
\* right order, a tie counting one half
roc_auc_score(y_true, probs) == LET pos == {k \in 1..Len(y_true) : y_true[k] = 1}  neg == {k \in 1..Len(y_true) : y_true[k] = 0}  gt == Cardinality({pr \in pos \X neg : RatLess(probs[pr[2]], probs[pr[1]])})  eq == Cardinality({pr \in pos \X neg : RatEq(probs[pr[2]], probs[pr[1]])}) IN <<2 * gt + eq, 2 * Cardinality(pos) * Cardinality(neg)>>

\* an evaluate whose except branch reports a perfect AUC
EvaluateAucFailsHigh(y_true, probs) == IF AucDefined(y_true) THEN roc_auc_score(y_true, probs) ELSE One

\* main.py 71-74: try roc_auc_score, except: auc = 0.0
evaluate_auc(y_true, probs) == IF AucDefined(y_true) THEN roc_auc_score(y_true, probs) ELSE Zero

\* main.py 215: ReduceLROnPlateau(optimizer, mode='max', factor=0.5, patience=5), with
\* the library's threshold=1e-4 (relative), cooldown=0, min_lr=0, eps=1e-8
Patience == 5
Factor == Half
Threshold == <<1, 10000>>
LrEps == <<1, 100000000>>

\* ReduceLROnPlateau.is_better in mode 'max' with the relative threshold:
\* a > best * (1 + threshold); best starts at -inf.  For the non-negative fractions
\* a = a1/a2 and best = b1/b2 this is (a1*b2 - b1*a2) * t2 > b1 * a2 * t1, the form
\* computed here (it keeps the products small).
is_better(a, best) == Len(best) = 0 \/ (a[1] * best[1][2] - best[1][1] * a[2]) * Threshold[2] > best[1][1] * a[2] * Threshold[1]

SchedulerStepImpatient(metrics, best, bad, rate) ==
    LET better == is_better(metrics, best)
        bad1 == IF better THEN 0 ELSE bad + 1
        reduce == bad1 > Patience - 2
        drop == RatMul(rate, RatAdd(One, <<0 - Factor[1], Factor[2]>>))
    IN [best |-> IF better THEN <<metrics>> ELSE best,
        num_bad_epochs |-> IF reduce THEN 0 ELSE bad1,
        lr |-> IF reduce /\ RatLess(LrEps, drop) THEN RatMul(rate, Factor) ELSE rate]

\* ReduceLROnPlateau.step(metrics): the new best, num_bad_epochs and learning rate
SchedulerStep(metrics, best, bad, rate) ==
    LET better == is_better(metrics, best)
        bad1 == IF better THEN 0 ELSE bad + 1
        reduce == bad1 > Patience
        drop == RatMul(rate, RatAdd(One, <<0 - Factor[1], Factor[2]>>))
    IN [best |-> IF better THEN <<metrics>> ELSE best,
        num_bad_epochs |-> IF reduce THEN 0 ELSE bad1,
        lr |-> IF reduce /\ RatLess(LrEps, drop) THEN RatMul(rate, Factor) ELSE rate]

\* the indices a boolean mask selects, ascending
Selected(mask) == Ascending({i \in DOMAIN mask : mask[i]})

\* one operation on the model: its name, the mode the model is in, the nodes it reads
Op(name, nodes) == [op |-> name, mode |-> mode', nodes |-> nodes]
AllNodes == 0..(data.num_nodes - 1)

\* main.py 33-45: model.train(), optimizer.zero_grad(), the forward pass over data.x
\* and data.edge_index, the loss over out[train_mask], loss.backward(), optimizer.step()
TrainOpsStepBeforeBackward == <<Op("zero_grad", {}), Op("forward", AllNodes), Op("loss", {i \in AllNodes : data.train_mask[i]}), Op("step", {}), Op("backward", {})>>

TrainOps == <<Op("zero_grad", {}), Op("forward", AllNodes), Op("loss", {i \in AllNodes : data.train_mask[i]}), Op("backward", {}), Op("step", {})>>

\* main.py 223-224 and 31-52: the next epoch's training step.  BatchNorm1d (model.py
\* 45-46, 69 and 74) refuses a batch of one row in training mode, so the forward pass
\* of a one-node graph raises before the optimizer step.  Otherwise optimizer.step()
\* runs before the accuracy correct / total, which divides by the size of the train
\* mask.
train_epoch_fullbatch ==
    /\ pc \in {"loaded", "epoch_end"}
    /\ epoch < MaxEpochs
    /\ epoch' = epoch + 1
    /\ mode' = "train"
    /\ IF data.num_nodes = 1
       THEN /\ ops' = <<Op("zero_grad", {})>>
            /\ weights' = weights
            /\ pc' = "train_failed"
            /\ raised' = "ValueError"
       ELSE /\ ops' = TrainOps
            /\ weights' = epoch + 1
            /\ IF Len(Selected(data.train_mask)) = 0
               THEN pc' = "train_failed" /\ raised' = "ZeroDivisionError"
               ELSE pc' = "trained" /\ raised' = raised
    /\ UNCHANGED <<graphVars, subgraph, splitVars, scores_df, files, best_auc, auc_history, saves, checkpoint, lr, num_bad_epochs, sched_best, eval_log, scoreVars, uploadVars>>

\* main.py 225-231: evaluate on the val mask (model.eval() and one forward pass,
\* main.py 58-61), scheduler.step(val_auc), and the save of the weights when
\* val_auc > best_auc
EvaluateEpoch ==
    /\ pc = "trained"
    /\ pc' = "epoch_end"
    /\ mode' = "eval"
    /\ ops' = Append(ops, Op("forward", AllNodes))
    /\ LET val == Selected(data.val_mask)
           y_true == [k \in 1..Len(val) |-> data.y[val[k]]]
       IN \E probs \in [1..Len(val) -> ProbLevels] :
             LET val_auc == evaluate_auc(y_true, probs)
                 st == SchedulerStep(val_auc, sched_best, num_bad_epochs, lr)
             IN /\ auc_history' = Append(auc_history, val_auc)
                /\ sched_best' = st.best
                /\ num_bad_epochs' = st.num_bad_epochs
                /\ lr' = st.lr
                /\ IF RatLess(best_auc, val_auc)
                   THEN best_auc' = val_auc /\ checkpoint' = <<weights>> /\ saves' = saves \cup {epoch}
                   ELSE UNCHANGED <<best_auc, checkpoint, saves>>
    /\ UNCHANGED <<raised, graphVars, subgraph, splitVars, scores_df, files, epoch, weights, eval_log, scoreVars, uploadVars>>

\* the weights of a best_model.pt left in the working directory by an earlier run of
\* the same model, and of one left by a model built on the one-column feature matrix
\* of data_loader.py 85-87
StaleWeights == 0 - 1
NarrowWeights == 0 - 2

\* number of input features of the model a state dict was saved from (the second
\* dimension of conv1's weight matrices, model.py 40)
InputDim(state_dict) == IF state_dict = NarrowWeights THEN 1 ELSE NumFeatures

\* torch's Module.load_state_dict with strict=True: a parameter whose shape differs
\* from the model's raises RuntimeError and no parameter is padded or truncated
LoadStateDictResized(model_weights, input_dim, state_dict) == [raised |-> None, weights |-> state_dict]

load_state_dict(model_weights, input_dim, state_dict) == IF InputDim(state_dict) # input_dim THEN [raised |-> "RuntimeError", weights |-> model_weights] ELSE [raised |-> None, weights |-> state_dict]

\* main.py 239: model.load_state_dict(torch.load('best_model.pt')) after the last
\* epoch; the model was built with input_dim = data.x.size(1) (main.py 203-204)
LoadBest ==
    /\ pc = "epoch_end"
    /\ epoch = MaxEpochs
    /\ IF checkpoint = <<>>
       THEN pc' = "reload_failed" /\ raised' = "FileNotFoundError" /\ weights' = weights
       ELSE LET r == load_state_dict(weights, data.x_shape[2], checkpoint[1])
            IN /\ weights' = r.weights
               /\ IF r.raised # None
                  THEN pc' = "reload_failed" /\ raised' = r.raised
                  ELSE pc' = "reloaded" /\ raised' = raised
    /\ UNCHANGED <<graphVars, subgraph, splitVars, scores_df, files, epoch, best_auc, auc_history, saves, checkpoint, lr, num_bad_epochs, sched_best, mode, ops, eval_log, scoreVars, uploadVars>>

\* a step after the training loop runs the model in inference mode on its weights
FinalStep(name) == mode' = "eval" /\ eval_log' = Append(eval_log, [step |-> name, weights |-> weights])

\* main.py 245: evaluate(model, data, device, 'test_mask')
FinalEvaluate ==
    /\ pc = "reloaded"
    /\ pc' = "tested"
    /\ FinalStep("evaluate")
    /\ UNCHANGED <<raised, graphVars, subgraph, splitVars, scores_df, files, epoch, weights, best_auc, auc_history, saves, checkpoint, lr, num_bad_epochs, sched_best, ops, scoreVars, uploadVars>>

\* main.py 250-258: the forward pass and classification_report(y_true, pred,
\* target_names=['Normal', 'Illicit']), which raises ValueError unless y_true and
\* pred hold two classes between them
ClassificationReport ==
    /\ pc = "tested"
    /\ FinalStep("classification_report")
    /\ LET test == Selected(data.test_mask)
           y_true == {data.y[test[k]] : k \in 1..Len(test)}
       IN \E pred \in SUBSET {0, 1} :
             /\ (pred = {}) <=> (Len(test) = 0)
             /\ IF Cardinality(y_true \cup pred) # 2
                THEN pc' = "report_failed" /\ raised' = "ValueError"
                ELSE pc' = "reported" /\ raised' = raised
    /\ UNCHANGED <<graphVars, subgraph, splitVars, scores_df, files, epoch, weights, best_auc, auc_history, saves, checkpoint, lr, num_bad_epochs, sched_best, ops, scoreVars, uploadVars>>

\* main.py 263: the call of compute_suspicion_scores on the trained model.  The
\* table it builds is the one of compute_suspicion_scores above; here the call is
\* recorded with the weights it runs on.
ScoreTrained ==
    /\ pc = "reported"
    /\ pc' = "final_scored"
    /\ FinalStep("compute_suspicion_scores")
    /\ UNCHANGED <<raised, graphVars, subgraph, splitVars, scores_df, files, epoch, weights, best_auc, auc_history, saves, checkpoint, lr, num_bad_epochs, sched_best, ops, scoreVars, uploadVars>>

\* a call of one of the model's inference methods has not been made since the last
\* training step
NotCalled(name) == \A k \in 1..Len(ops) : ops[k].op # name

\* model.py 80-102 and 104-119: self.eval() and one forward pass under
\* torch.no_grad(), up to conv2 or to the softmax.  No code of the repository calls
\* them; they are callable wherever a caller holds the model: here before the training
\* loop and after the last step of main.
GetEmbeddingsWithStep ==
    /\ pc \in {"loaded", "done"}
    /\ NotCalled("get_embeddings")
    /\ mode' = "eval"
    /\ ops' = Append(ops, Op("get_embeddings", AllNodes))
    /\ weights' = weights + 1
    /\ UNCHANGED <<pc, raised, graphVars, subgraph, splitVars, scores_df, files, epoch, best_auc, auc_history, saves, checkpoint, lr, num_bad_epochs, sched_best, eval_log, scoreVars, uploadVars>>

get_embeddings ==
    /\ pc \in {"loaded", "done"}
    /\ NotCalled("get_embeddings")
    /\ mode' = "eval"
    /\ ops' = Append(ops, Op("get_embeddings", AllNodes))
    /\ weights' = weights
    /\ UNCHANGED <<pc, raised, graphVars, subgraph, splitVars, scores_df, files, epoch, best_auc, auc_history, saves, checkpoint, lr, num_bad_epochs, sched_best, eval_log, scoreVars, uploadVars>>

predict_proba ==
    /\ pc \in {"loaded", "done"}
    /\ NotCalled("predict_proba")
    /\ mode' = "eval"
    /\ ops' = Append(ops, Op("predict_proba", AllNodes))
    /\ weights' = weights
    /\ UNCHANGED <<pc, raised, graphVars, subgraph, splitVars, scores_df, files, epoch, best_auc, auc_history, saves, checkpoint, lr, num_bad_epochs, sched_best, eval_log, scoreVars, uploadVars>>

\* label tables of n0 normal and n1 illicit wallets (no transactions)
TrainClassSizes == {<<1, 0>>, <<1, 1>>, <<5, 0>>, <<5, 5>>}
TrainLabels(n0, n1) == [k \in 1..(n0 + n1) |-> [Wallet_ID |-> <<k>>, Label |-> IF k <= n0 THEN 0 ELSE 1]]
\* the tables of three wallets or more come with one transaction
TrainTransactions(n0, n1) == IF n0 + n1 >= 3 THEN <<[Source_Wallet_ID |-> <<3>>, Dest_Wallet_ID |-> <<2>>, Timestamp |-> 0, Amount |-> 1]>> ELSE <<>>
TrainInputs == {<<TrainTransactions(c[1], c[2]), TrainLabels(c[1], c[2])>> : c \in TrainClassSizes}

\* a run of main.py starts with or without a best_model.pt of an earlier run
InitTrain == /\ pc = "start"
             /\ raised = None
             /\ tx_df = None
             /\ labels_df = None
             /\ tx_columns = {}
             /\ text_amounts = {}
             /\ wallet_to_idx = None
             /\ idx_to_wallet = None
             /\ data = None
             /\ features = None
             /\ prev_wallet_to_idx = None
             /\ builds = 0
             /\ subgraph = None
             /\ split_in = NoSplit
             /\ split_out = None
             /\ split_again = None
             /\ NoUpload
             /\ scores_df = None
             /\ files = {}
             /\ epoch = 0
             /\ weights = 0
             /\ best_auc = Zero
             /\ auc_history = <<>>
             /\ saves = {}
             /\ checkpoint \in {<<>>, <<StaleWeights>>, <<NarrowWeights>>}
             /\ lr = InitialLr
             /\ num_bad_epochs = 0
             /\ sched_best = <<>>
             /\ mode = "train"
             /\ ops = <<>>
             /\ eval_log = <<>>
             /\ NoScoreCall

LoadForTraining ==
    /\ pc = "start"
    /\ \E in \in TrainInputs : LoadGraph(in[1], in[2])
    /\ UNCHANGED prev_wallet_to_idx

\* main.py 266-271: in a run of main the extraction follows the scoring;
\* --extract_subgraph names a wallet of the graph or one that is not in it
TrainTargets == {<<2>>, <<1, 2>>}
ExtractTrained == pc = "final_scored" /\ \E t \in TrainTargets : extract_2hop_subgraph(t)

NextTrain == LoadForTraining \/ train_epoch_fullbatch \/ EvaluateEpoch \/ LoadBest \/ FinalEvaluate \/ ClassificationReport \/ ScoreTrained \/ get_embeddings \/ predict_proba \/ ExtractTrained \/ SaveSubgraph

SpecTrain == InitTrain /\ [][NextTrain]_vars

----------------------------------------------------------------------------
(* The learning-rate schedule over a long run (main.py 214-227) *)

\* number of epochs of the runs, and the validation AUCs an epoch can end with: 1/2,
\* a value above 1/2 by less than the relative threshold, and 3/4
ScheduleEpochs == 8
ScheduleMetrics == {Half, <<20001, 40000>>, <<3, 4>>}

\* main.py 225-227: the epoch's validation AUC is handed to scheduler.step
ScheduleEpoch ==
    /\ pc \in {"start", "scheduled"}
    /\ epoch < ScheduleEpochs
    /\ pc' = "scheduled"
    /\ epoch' = epoch + 1
    /\ \E val_auc \in ScheduleMetrics :
          LET st == SchedulerStep(val_auc, sched_best, num_bad_epochs, lr)
          IN /\ auc_history' = Append(auc_history, val_auc)
             /\ sched_best' = st.best
             /\ num_bad_epochs' = st.num_bad_epochs
             /\ lr' = st.lr
    /\ UNCHANGED <<raised, graphVars, subgraph, splitVars, scores_df, files, weights, best_auc, saves, checkpoint, mode, ops, eval_log, scoreVars, uploadVars>>

SpecSchedule == Init /\ [][ScheduleEpoch]_vars

----------------------------------------------------------------------------
(* The graph build on transactions whose timestamps and amounts vary *)

LoadVaried ==
    /\ pc = "start"
    /\ \E in \in FeatureInputs : LoadGraph(in[1], in[2])
    /\ UNCHANGED prev_wallet_to_idx

SpecFeatures == Init /\ [][LoadVaried]_vars

----------------------------------------------------------------------------
(* The graph build on transactions tables that lack columns or hold text amounts *)

\* columns present, rows, positions of the text Amount cells, labels table
MalformedInputs == {in \in (SUBSET RequiredColumns) \X SeqsUpTo(PlainTxRows, MalformedMaxTx) \X (SUBSET (1..MalformedMaxTx)) \X LabelTables : in[3] \subseteq 1..Len(in[2]) /\ ("Amount" \notin in[1] => in[3] = {})}

LoadMalformed ==
    /\ pc = "start"
    /\ \E in \in MalformedInputs : LoadTable(in[1], in[2], in[3], in[4])
    /\ UNCHANGED prev_wallet_to_idx

SpecMalformed == Init /\ [][LoadMalformed]_vars

----------------------------------------------------------------------------
(* Two builds in a row (two runs of main.py, two uploads to api_server.py) *)

FirstBuild ==
    /\ pc = "start"
    /\ \E in \in FirstInputs : LoadGraph(in[1], in[2])
    /\ UNCHANGED prev_wallet_to_idx

SecondBuild ==
    /\ pc = "loaded"
    /\ builds = 1
    /\ prev_wallet_to_idx' = wallet_to_idx
    /\ \E in \in SecondInputs : LoadGraph(in[1], in[2])

NextRebuild == FirstBuild \/ SecondBuild

SpecRebuild == Init /\ [][NextRebuild]_vars

----------------------------------------------------------------------------
(* create_stratified_masks called on its own *)

LabelVectors == UNION {[0..(n - 1) -> Labels] : n \in 0..MaxNodes}
Ratios == {<<k, RatioDen>> : k \in 0..RatioDen}

InitSplit == /\ pc = "start"
             /\ tx_df = None
             /\ labels_df = None
             /\ tx_columns = {}
             /\ text_amounts = {}
             /\ raised = None
             /\ wallet_to_idx = None
             /\ idx_to_wallet = None
             /\ data = None
             /\ features = None
             /\ prev_wallet_to_idx = None
             /\ builds = 0
             /\ subgraph = None
             /\ split_in \in {in \in [y : LabelVectors, train_ratio : Ratios, val_ratio : Ratios] : in.train_ratio[1] + in.val_ratio[1] <= RatioDen}
             /\ split_out = None
             /\ split_again = None
             /\ NoUpload
             /\ scores_df = None
             /\ files = {}
             /\ NoTraining
             /\ NoScoreCall

CallSplit ==
    /\ pc = "start"
    /\ pc' = "split"
    /\ split_out' \in create_stratified_masks(split_in.y, split_in.train_ratio, split_in.val_ratio)
    /\ UNCHANGED <<raised, graphVars, subgraph, split_in, split_again, scores_df, files, trainVars, scoreVars, uploadVars>>

SpecSplit == InitSplit /\ [][CallSplit]_vars

\* a second call with the arguments of the first.  create_stratified_masks takes the
\* label vector and the two ratios only; each class is shuffled by torch.randperm(n)
\* on torch's global generator, which the call does not seed and which the first call
\* has advanced.
CallSplitAgain ==
    /\ pc = "split"
    /\ pc' = "split_twice"
    /\ split_again' \in create_stratified_masks(split_in.y, split_in.train_ratio, split_in.val_ratio)
    /\ UNCHANGED <<raised, graphVars, subgraph, split_in, split_out, scores_df, files, trainVars, scoreVars, uploadVars>>

NextSplitTwice == CallSplit \/ CallSplitAgain

SpecSplitTwice == InitSplit /\ [][NextSplitTwice]_vars

----------------------------------------------------------------------------
(* calculate_suspicion_score called on its own *)

\* raw probabilities in [0, 1], the two ends included
RawProbs == {Zero, Half, One}
\* degree weights: negative, zero, the default 0.1 (utils.py 206), and above 1
DegreeWeights == {<<0 - 1, 2>>, Zero, <<1, 10>>, <<2, 1>>}
DegreeVectors(n) == [0..(n - 1) -> 0..MaxDegree]
Optional(S) == {<<>>} \cup {<<x>> : x \in S}

ScoreInputs == UNION {[probs : [0..(n - 1) -> RawProbs], in_degree : Optional(DegreeVectors(n)), out_degree : Optional(DegreeVectors(n)), degree_weight : DegreeWeights] : n \in 1..MaxScoreNodes}

InitScore == /\ pc = "start"
             /\ tx_df = None
             /\ labels_df = None
             /\ tx_columns = {}
             /\ text_amounts = {}
             /\ raised = None
             /\ wallet_to_idx = None
             /\ idx_to_wallet = None
             /\ data = None
             /\ features = None
             /\ prev_wallet_to_idx = None
             /\ builds = 0
             /\ subgraph = None
             /\ split_in = NoSplit
             /\ split_out = None
             /\ split_again = None
             /\ NoUpload
             /\ scores_df = None
             /\ files = {}
             /\ NoTraining
             /\ score_in \in ScoreInputs
             /\ score_out = None

CallScore ==
    /\ pc = "start"
    /\ pc' = "scored_direct"
    /\ score_out' = calculate_suspicion_score(score_in.probs, score_in.in_degree, score_in.out_degree, score_in.degree_weight)
    /\ UNCHANGED <<raised, graphVars, subgraph, splitVars, scores_df, files, trainVars, score_in, uploadVars>>

SpecScore == InitScore /\ [][CallScore]_vars

----------------------------------------------------------------------------
(* Properties of the stratified split (checked under SpecSplit) *)

MaskNames == {"train_mask", "val_mask", "test_mask"}

\* the members of a label class, and those of them a mask selects
ClassOf(y, label) == {i \in DOMAIN y : y[i] = label}
InMask(masks, name, S) == {i \in S : masks[name][i]}

\* floor(n * k / d), stated without the division the split uses
FloorMul(n, ratio) == CHOOSE k \in 0..n : k * ratio[2] <= n * ratio[1] /\ (k + 1) * ratio[2] > n * ratio[1]

\* C1: the three masks returned by create_stratified_masks are pairwise disjoint
\* and cover the node set: every node is in exactly one of train, val, test.
C1_MasksPartition == pc = "split" => \A i \in DOMAIN split_in.y : Cardinality({m \in MaskNames : split_out[m][i]}) = 1

\* a split of at least two classes in which each of the three masks selects a node
C1_Witness == pc = "split" /\ Cardinality({split_in.y[i] : i \in DOMAIN split_in.y}) = 2 /\ \A m \in MaskNames : \E i \in DOMAIN split_in.y : split_out[m][i]

----------------------------------------------------------------------------
(* The upload handler upload_file (api_server.py 22-153) *)

\* the temporary files of the handler
UploadedXlsx == "upload.xlsx"
TempFiles == {UploadedXlsx, "temp_transactions.csv", "temp_labels.csv", "temp_suspicion_scores.csv", "temp_network_data.json"}

\* the sheets a workbook can hold, and the two tables of an uploaded workbook: with
\* or without the Amount column, a short plain transactions table, a short labels
\* table
SheetNames == {"Transactions", "Labels"}
UploadTables == {RequiredColumns, RequiredColumns \ {"Amount"}} \X SeqsUpTo(PlainTxRows, FirstMaxTx) \X LabelTables

\* the working directory of the server holds no best_model.pt, one of this model, or
\* one saved from a model of another input dimensionality
InitUpload == /\ pc = "start"
              /\ raised = None
              /\ tx_df = None
              /\ labels_df = None
              /\ tx_columns = {}
              /\ text_amounts = {}
              /\ wallet_to_idx = None
              /\ idx_to_wallet = None
              /\ data = None
              /\ features = None
              /\ prev_wallet_to_idx = None
              /\ builds = 0
              /\ subgraph = None
              /\ split_in = NoSplit
              /\ split_out = None
              /\ split_again = None
              /\ NoUpload
              /\ scores_df = None
              /\ files = {}
              /\ epoch = 0
              /\ weights = 0
              /\ best_auc = Zero
              /\ auc_history = <<>>
              /\ saves = {}
              /\ checkpoint \in {<<>>, <<StaleWeights>>, <<NarrowWeights>>}
              /\ lr = InitialLr
              /\ num_bad_epochs = 0
              /\ sched_best = <<>>
              /\ mode = "train"
              /\ ops = <<>>
              /\ eval_log = <<>>
              /\ NoScoreCall


\* the part of the frame the steps of the handler share
UploadFrame == UNCHANGED <<graphVars, subgraph, splitVars, scores_df, files, epoch, best_auc, auc_history, saves, checkpoint, lr, num_bad_epochs, sched_best, ops, scoreVars>>

\* api_server.py 41-43: tempfile.NamedTemporaryFile(delete=False) creates the file,
\* file.save fills it, and only then tmp_path is assigned
SaveUpload ==
    /\ pc = "start"
    /\ disk' = disk \cup {UploadedXlsx}
    /\ \/ pc' = "saved" /\ paths' = paths \cup {UploadedXlsx} /\ raised' = raised
       \/ pc' = "upload_raised" /\ paths' = paths /\ raised' = "OSError"
    /\ UploadFrame
    /\ UNCHANGED <<response, weights, mode, eval_log>>

\* api_server.py 47-52: pd.ExcelFile raises on a file that is no workbook; a workbook
\* without both sheets is answered with 400 from inside the try block
ReadWorkbook ==
    /\ pc = "saved"
    /\ \/ pc' = "upload_raised" /\ raised' = "ValueError" /\ response' = response
       \/ \E sheet_names \in SUBSET SheetNames :
             IF "Transactions" \notin sheet_names \/ "Labels" \notin sheet_names
             THEN pc' = "returned_early" /\ response' = <<400>> /\ raised' = raised
             ELSE pc' = "sheets_ok" /\ response' = response /\ raised' = raised
    /\ UploadFrame
    /\ UNCHANGED <<disk, paths, weights, mode, eval_log>>

\* api_server.py 54-62: both path variables are assigned before the first to_csv;
\* a to_csv can raise (OSError) before or after it created its file
WriteCsv ==
    /\ pc = "sheets_ok"
    /\ paths' = paths \cup {"temp_transactions.csv", "temp_labels.csv"}
    /\ \/ pc' = "csv_written" /\ disk' = disk \cup {"temp_transactions.csv", "temp_labels.csv"} /\ raised' = raised
       \/ \E written \in {{}, {"temp_transactions.csv"}, {"temp_transactions.csv", "temp_labels.csv"}} :
             pc' = "upload_raised" /\ disk' = disk \cup written /\ raised' = "OSError"
    /\ UploadFrame
    /\ UNCHANGED <<response, weights, mode, eval_log>>

\* api_server.py 66-70: load_transaction_graph on the two CSV files
UploadBuildGraph ==
    /\ pc = "csv_written"
    /\ \E in \in UploadTables : LoadTable(in[1], in[2], {}, in[3])
    /\ UNCHANGED prev_wallet_to_idx

\* api_server.py 75-86: the model is built with input_dim = graph_data.num_features;
\* without a best_model.pt the handler answers 500 from inside the try block
UploadLoadModel ==
    /\ pc = "loaded"
    /\ IF checkpoint = <<>>
       THEN pc' = "returned_early" /\ response' = <<500>> /\ raised' = raised /\ UNCHANGED <<weights, mode>>
       ELSE LET r == load_state_dict(weights, data.x_shape[2], checkpoint[1])
            IN /\ weights' = r.weights
               /\ response' = response
               /\ IF r.raised # None
                  THEN pc' = "upload_raised" /\ raised' = r.raised /\ mode' = mode
                  ELSE pc' = "model_loaded" /\ raised' = raised /\ mode' = "eval"
    /\ UploadFrame
    /\ UNCHANGED <<disk, paths, eval_log>>

\* api_server.py 90-107: the forward pass in inference mode and the scores table
\* written to temp_suspicion_scores.csv
UploadPredict ==
    /\ pc = "model_loaded"
    /\ eval_log' = Append(eval_log, [step |-> "upload_file", weights |-> weights])
    /\ paths' = paths \cup {"temp_suspicion_scores.csv"}
    /\ \/ pc' = "predicted" /\ disk' = disk \cup {"temp_suspicion_scores.csv"} /\ raised' = raised
       \/ pc' = "upload_raised" /\ disk' \in {disk, disk \cup {"temp_suspicion_scores.csv"}} /\ raised' = "OSError"
    /\ UploadFrame
    /\ UNCHANGED <<response, weights, mode>>

\* api_server.py 111-120: temp_network_path is assigned, export_network_data writes
\* the JSON file (or raises, before or after it created the file), and the handler
\* reads it back
UploadExport ==
    /\ pc = "predicted"
    /\ paths' = paths \cup {"temp_network_data.json"}
    /\ \/ pc' = "exported" /\ disk' = disk \cup {"temp_network_data.json"} /\ raised' = raised
       \/ pc' = "upload_raised" /\ disk' \in {disk, disk \cup {"temp_network_data.json"}} /\ raised' = "Exception"
    /\ UploadFrame
    /\ UNCHANGED <<response, weights, mode, eval_log>>

\* api_server.py 123-128 and 144-152: os.unlink of every path variable that is set
\* and whose file exists
Cleanup == disk' = disk \ paths

\* api_server.py 123-142: the clean-up and the success response
UploadSucceed ==
    /\ pc = "exported"
    /\ pc' = "returned"
    /\ Cleanup
    /\ response' = <<200>>
    /\ UploadFrame
    /\ UNCHANGED <<raised, paths, weights, mode, eval_log>>

\* api_server.py 144-153: the except clause cleans up and answers 500
UploadExcept ==
    /\ pc \in {"upload_raised", "load_failed"}
    /\ pc' = "returned_error"
    /\ Cleanup
    /\ response' = <<500>>
    /\ UploadFrame
    /\ UNCHANGED <<raised, paths, weights, mode, eval_log>>

upload_file == SaveUpload \/ ReadWorkbook \/ WriteCsv \/ UploadBuildGraph \/ UploadLoadModel \/ UploadPredict \/ UploadExport \/ UploadSucceed \/ UploadExcept

SpecUpload == InitUpload /\ [][upload_file]_vars

----------------------------------------------------------------------------
(* Properties of the built graph *)

Built == pc \in {"loaded", "extracted", "done", "scored"}

\* the ids of the three columns, read off the tables row by row
SourceIds == {tx_df[k].Source_Wallet_ID : k \in 1..Len(tx_df)}
DestIds == {tx_df[k].Dest_Wallet_ID : k \in 1..Len(tx_df)}
LabeledIds == {labels_df[k].Wallet_ID : k \in 1..Len(labels_df)}
Vocabulary == SourceIds \cup DestIds \cup LabeledIds

\* the rows that leave, and the rows that enter, a wallet
OutRows(w) == {k \in 1..Len(tx_df) : tx_df[k].Source_Wallet_ID = w}
InRows(w) == {k \in 1..Len(tx_df) : tx_df[k].Dest_Wallet_ID = w}

\* C3: wallet_to_idx and idx_to_wallet are mutually inverse bijections between
\* the wallet vocabulary and the dense range 0..num_nodes-1.
C3_IndexBijection == Built => /\ DOMAIN wallet_to_idx = Vocabulary /\ DOMAIN idx_to_wallet = 0..(data.num_nodes - 1) /\ \A w \in DOMAIN wallet_to_idx : wallet_to_idx[w] \in DOMAIN idx_to_wallet /\ idx_to_wallet[wallet_to_idx[w]] = w /\ \A i \in DOMAIN idx_to_wallet : idx_to_wallet[i] \in DOMAIN wallet_to_idx /\ wallet_to_idx[idx_to_wallet[i]] = i

\* a graph of three wallets, one of which occurs in several rows
C3_Witness == pc = "loaded" /\ data.num_nodes = 3 /\ Len(tx_df) = 2 /\ tx_df[1].Source_Wallet_ID = tx_df[2].Source_Wallet_ID

\* C4: a wallet's index is its rank in the lexicographically sorted set of
\* identities, so a second build over the same identity set assigns the same
\* indices, whatever the rows' order and multiplicity.
C4_IndexIsRank == pc = "loaded" => /\ \A w \in DOMAIN wallet_to_idx : wallet_to_idx[w] = Cardinality({v \in Vocabulary : LexLess(v, w)}) /\ (builds = 2 /\ DOMAIN prev_wallet_to_idx = DOMAIN wallet_to_idx => prev_wallet_to_idx = wallet_to_idx)

\* a second build over the same two identities, whose rows name them in descending order
C4_Witness == pc = "loaded" /\ builds = 2 /\ DOMAIN prev_wallet_to_idx = DOMAIN wallet_to_idx /\ Len(labels_df) = 2 /\ LexLess(labels_df[2].Wallet_ID, labels_df[1].Wallet_ID) /\ Len(labels_df[2].Wallet_ID) > Len(labels_df[1].Wallet_ID)

\* C5: the node set is the union of the source, destination and labeled ids; a
\* wallet that occurs only in the labels table is a node of in-degree 0 and
\* out-degree 0 and the endpoint of no edge.
C5_VocabularyUnion == Built => /\ DOMAIN wallet_to_idx = SourceIds \cup DestIds \cup LabeledIds /\ data.num_nodes = Cardinality(SourceIds \cup DestIds \cup LabeledIds) /\ \A w \in LabeledIds \ (SourceIds \cup DestIds) : /\ w \in DOMAIN wallet_to_idx /\ features.in_degree[wallet_to_idx[w]] = 0 /\ features.out_degree[wallet_to_idx[w]] = 0 /\ \A e \in 1..Len(data.edge_index[1]) : data.edge_index[1][e] # wallet_to_idx[w] /\ data.edge_index[2][e] # wallet_to_idx[w]

\* a graph with edges and a wallet that only the labels table names
C5_Witness == pc = "loaded" /\ Len(tx_df) = 2 /\ LabeledIds \ (SourceIds \cup DestIds) # {}

\* C6: the out-degrees and the in-degrees each sum to the number of transaction rows,
\* multi-edges and self-loops included.
C6_DegreeSums == Built => /\ SumFun(features.out_degree, data.num_nodes) = Len(tx_df) /\ SumFun(features.in_degree, data.num_nodes) = Len(tx_df)

\* a table that repeats a transfer of a wallet to itself
C6_Witness == pc = "loaded" /\ Len(tx_df) = 2 /\ tx_df[1].Source_Wallet_ID = tx_df[1].Dest_Wallet_ID /\ tx_df[2].Source_Wallet_ID = tx_df[1].Source_Wallet_ID /\ tx_df[2].Dest_Wallet_ID = tx_df[1].Dest_Wallet_ID

\* C7: a wallet the labels table does not name has label 0; a wallet it names has
\* the label given there (the one of its last row, when several rows name it).
C7_LabelVector == Built => \A w \in DOMAIN wallet_to_idx : IF w \notin LabeledIds THEN data.y[wallet_to_idx[w]] = 0 ELSE LET last == CHOOSE k \in 1..Len(labels_df) : labels_df[k].Wallet_ID = w /\ \A j \in (k + 1)..Len(labels_df) : labels_df[j].Wallet_ID # w IN data.y[wallet_to_idx[w]] = labels_df[last].Label

\* a graph with two unlabeled wallets and a wallet labeled 1
C7_Witness == pc = "loaded" /\ Cardinality(Vocabulary \ LabeledIds) = 2 /\ Len(labels_df) = 1 /\ labels_df[1].Label = 1

\* C8: a wallet without outgoing transactions has time-gap mean, time-gap std,
\* amount mean and amount std 0, and its in-degree counts its incoming edges.
C8_NoOutgoing == Built => \A w \in DOMAIN wallet_to_idx : OutRows(w) = {} => LET i == wallet_to_idx[w] IN /\ RatEq(features.time_mean[i], Zero) /\ RatEq(features.time_std[i], Zero) /\ RatEq(features.amount_mean[i], Zero) /\ RatEq(features.amount_std[i], Zero) /\ features.in_degree[i] = Cardinality(InRows(w))

\* a wallet that only receives: two transfers at different times
C8_Witness == pc = "loaded" /\ \E w \in DOMAIN wallet_to_idx : OutRows(w) = {} /\ InRows(w) = {1, 2} /\ tx_df[1].Timestamp # tx_df[2].Timestamp

\* C9: a wallet with exactly one outgoing transaction has time-gap mean, time-gap
\* std and amount std 0, and its amount mean is that transaction's amount.
C9_OneOutgoing == Built => \A w \in DOMAIN wallet_to_idx : Cardinality(OutRows(w)) = 1 => LET i == wallet_to_idx[w]  k == CHOOSE k \in OutRows(w) : TRUE IN /\ RatEq(features.time_mean[i], Zero) /\ RatEq(features.time_std[i], Zero) /\ RatEq(features.amount_std[i], Zero) /\ RatEq(features.amount_mean[i], <<tx_df[k].Amount, 1>>)

\* a wallet that sends once and receives once, the two amounts being different
C9_Witness == pc = "loaded" /\ \E w \in DOMAIN wallet_to_idx : Cardinality(OutRows(w)) = 1 /\ Cardinality(InRows(w)) = 1 /\ OutRows(w) # InRows(w) /\ tx_df[1].Amount # tx_df[2].Amount

----------------------------------------------------------------------------
(* Properties of the subgraph extraction *)

\* the wallets one transfer away from a set of wallets, in either direction
Neighbours(S) == {tx_df[k].Dest_Wallet_ID : k \in {k \in 1..Len(tx_df) : tx_df[k].Source_Wallet_ID \in S}} \cup {tx_df[k].Source_Wallet_ID : k \in {k \in 1..Len(tx_df) : tx_df[k].Dest_Wallet_ID \in S}}

\* the wallets within k transfers of a wallet when edges are followed in both directions
RECURSIVE WithinHops(_, _)
WithinHops(w, k) == IF k = 0 THEN {w} ELSE LET S == WithinHops(w, k - 1) IN S \cup Neighbours(S)

\* C10: the returned node set is exactly the set of nodes within k = 2 hops of the
\* target, edges being followed in both directions (successors and predecessors).
C10_BothDirections == (pc = "extracted" /\ subgraph.target \in DOMAIN wallet_to_idx) => Range(subgraph.nodes) = WithinHops(subgraph.target, NumHops)

\* the rows of the transactions table whose two wallets both lie in S, as (source, dest) pairs
EdgesWithin(S) == LET rows == SelectSeq(tx_df, LAMBDA r : r.Source_Wallet_ID \in S /\ r.Dest_Wallet_ID \in S) IN [k \in 1..Len(rows) |-> <<rows[k].Source_Wallet_ID, rows[k].Dest_Wallet_ID>>]

Extracted == pc \in {"extracted", "done"} /\ subgraph.target \in DOMAIN wallet_to_idx

\* C11: the returned edge list holds exactly the graph's edges whose source and
\* destination are both returned nodes, under their wallet identities, and the
\* label mapping has one entry per returned node, equal to the node's graph label.
C11_InducedSubgraph == Extracted => /\ subgraph.edges = EdgesWithin(Range(subgraph.nodes))
                                    /\ \A i, j \in 1..Len(subgraph.nodes) : subgraph.nodes[i] = subgraph.nodes[j] => i = j
                                    /\ DOMAIN subgraph.node_labels = Range(subgraph.nodes)
                                    /\ \A w \in Range(subgraph.nodes) : subgraph.node_labels[w] = data.y[wallet_to_idx[w]]

\* two wallets are returned with the one edge between them, one of them is labeled
\* illicit, and a second edge of the graph leaves the returned node set
C11_Witness == /\ Extracted
               /\ Len(subgraph.nodes) = 2
               /\ Len(subgraph.edges) = 1
               /\ \E k \in 1..Len(tx_df) : tx_df[k].Dest_Wallet_ID \notin Range(subgraph.nodes)
               /\ \E w \in Range(subgraph.nodes) : subgraph.node_labels[w] = 1

\* the connected component of a wallet, edges being followed in both directions
Component(w) == WithinHops(w, Cardinality(DOMAIN wallet_to_idx))

\* what the library call of extract_2hop_subgraph returns when it is given num_hops = 0
ZeroHops(w) == k_hop_subgraph(wallet_to_idx[w], 0, data.edge_index, data.num_nodes)

\* C12: with k = 0 the extraction returns the single target node and no edges, also
\* when the target has a self-loop edge; with k at least the diameter of the graph
\* it returns the whole connected component of the target.
C12_ZeroHopsAndComponent == /\ Built => \A w \in DOMAIN wallet_to_idx : ZeroHops(w).subset = <<wallet_to_idx[w]>> /\ Len(ZeroHops(w).edge_index[1]) = 0
                            /\ (Extracted /\ WithinHops(subgraph.target, NumHops) = Component(subgraph.target)) => Range(subgraph.nodes) = Component(subgraph.target)


\* C13: extraction for a target that is not in the wallet vocabulary ends without an
\* exception, returns the null result (None, None, None) and leaves the graph and both
\* index maps as they were; main then writes no subgraph file.
C13_UnknownWallet == /\ [][(pc = "loaded" /\ pc' = "extracted" /\ subgraph'.target \notin DOMAIN wallet_to_idx) => (subgraph'.nodes = None /\ subgraph'.edges = None /\ subgraph'.node_labels = None /\ UNCHANGED graphVars)]_vars
                     /\ []((pc \in {"extracted", "done"} /\ subgraph.target \notin DOMAIN wallet_to_idx) => files = {})

\* main has gone past its file-writing step after an extraction for an unknown wallet
\* on a graph with a transaction
C13_Witness == pc = "done" /\ subgraph.target = UnknownWallet /\ Len(tx_df) > 0

----------------------------------------------------------------------------
(* Properties of the suspicion-score table *)

\* C15: the table has exactly one row per wallet of the graph, its rows are in
\* non-increasing order of Suspicion_Score, Predicted_Label is 1 when the score is
\* above 0.5 and 0 otherwise, and True_Label is the wallet's label in the graph.
C15_ScoreTable == pc = "scored" => /\ Len(scores_df) = data.num_nodes
                                   /\ {scores_df[k].Wallet_ID : k \in 1..Len(scores_df)} = DOMAIN wallet_to_idx
                                   /\ \A i, j \in 1..Len(scores_df) : i < j => ~RatLess(scores_df[i].Suspicion_Score, scores_df[j].Suspicion_Score)
                                   /\ \A k \in 1..Len(scores_df) : scores_df[k].Predicted_Label = (IF RatLess(Half, scores_df[k].Suspicion_Score) THEN 1 ELSE 0)
                                   /\ \A k \in 1..Len(scores_df) : scores_df[k].True_Label = data.y[wallet_to_idx[scores_df[k].Wallet_ID]]

\* a table of three rows whose order differs from the index order, with a score of
\* exactly 0.5 predicted 0, a score above it predicted 1, and a wallet labeled illicit
C15_Witness == /\ pc = "scored"
               /\ Len(scores_df) = 3
               /\ LexLess(scores_df[2].Wallet_ID, scores_df[1].Wallet_ID)
               /\ \E k \in 1..3 : scores_df[k].Suspicion_Score = Half /\ scores_df[k].Predicted_Label = 0
               /\ \E k \in 1..3 : scores_df[k].Predicted_Label = 1
               /\ \E k \in 1..3 : scores_df[k].True_Label = 1

----------------------------------------------------------------------------
(* Properties of calculate_suspicion_score (checked under SpecScore) *)

Scored == pc = "scored_direct"
WithDegrees == Len(score_in.in_degree) > 0 /\ Len(score_in.out_degree) > 0
\* in-degree + out-degree of node i in the call
Combined(i) == score_in.in_degree[1][i] + score_in.out_degree[1][i]
\* the raw probability plus the weighted degree term, before any clamp
Boosted(i) == RatAdd(score_in.probs[i], RatMul(score_in.degree_weight, degree_anomaly(score_in.in_degree[1], score_in.out_degree[1])[i]))

\* C16: for raw probabilities in [0, 1], non-negative degree vectors and any degree
\* weight, every returned score lies in [0, 1], degree vectors supplied or not.
C16_ScoreInUnitInterval == Scored => \A i \in DOMAIN score_out : RatLeq(Zero, score_out[i]) /\ RatLeq(score_out[i], One)

\* with degree vectors, one node's boosted score exceeds 1 and is returned as 1, and
\* another node's raw probability is returned as it is
C16_Witness == /\ Scored
               /\ WithDegrees
               /\ \E i \in DOMAIN score_out : RatLess(One, Boosted(i)) /\ score_out[i] = One
               /\ \E i \in DOMAIN score_out : score_out[i] = Half

\* C17: with the raw probability and a degree weight >= 0 held fixed, a node with a
\* larger degree-anomaly term (a larger combined degree in the same call) never gets
\* a smaller score.
C17_MonotoneInDegree == (Scored /\ WithDegrees /\ RatLeq(Zero, score_in.degree_weight)) => \A i, j \in DOMAIN score_out : (RatEq(score_in.probs[i], score_in.probs[j]) /\ Combined(i) <= Combined(j)) => RatLeq(score_out[i], score_out[j])

\* two nodes of equal raw probability and different combined degree get different scores
C17_Witness == /\ Scored
               /\ WithDegrees
               /\ RatLess(Zero, score_in.degree_weight)
               /\ \E i, j \in DOMAIN score_out : score_in.probs[i] = score_in.probs[j] /\ Combined(i) < Combined(j) /\ RatLess(score_out[i], score_out[j])

\* the largest combined degree of the call
MaxCombined == CHOOSE m \in {Combined(i) : i \in DOMAIN score_in.probs} : \A i \in DOMAIN score_in.probs : Combined(i) <= m

\* C18: the degree-anomaly term of a node is its combined degree divided by the
\* largest combined degree over all nodes, so that the node with the largest combined
\* degree gets the term 1 and the full degree_weight boost.
C18_MaxCombinedDegree == (Scored /\ WithDegrees /\ MaxCombined > 0) => \A i \in DOMAIN score_out : RatEq(score_out[i], clamp(RatAdd(score_in.probs[i], RatMul(score_in.degree_weight, <<Combined(i), MaxCombined>>)), Zero, One))

----------------------------------------------------------------------------
(* Properties of the load of a malformed table (checked under SpecMalformed) *)

\* C14: when the transactions table lacks a required column or holds an amount that
\* is not a number, the graph construction fails with MalformedInputError and
\* returns no graph.
C14_MalformedInput == (pc \in {"loaded", "load_failed"} /\ (tx_columns # RequiredColumns \/ text_amounts # {})) => (pc = "load_failed" /\ raised = "MalformedInputError")


----------------------------------------------------------------------------
(* Properties of the training loop (checked under SpecTrain) *)

\* the maximum of 0 and the values of a list of AUCs
RECURSIVE MaxAuc(_)
MaxAuc(h) == IF h = <<>> THEN Zero ELSE LET m == MaxAuc(SubSeq(h, 1, Len(h) - 1)) IN IF RatLess(m, h[Len(h)]) THEN h[Len(h)] ELSE m

\* an epoch has just ended
EpochEnd == pc = "epoch_end"

\* the earliest epoch whose validation AUC equals the current best_auc
EarliestBest == CHOOSE e \in 1..epoch : RatEq(auc_history[e], best_auc) /\ \A d \in 1..(e - 1) : ~RatEq(auc_history[d], best_auc)

\* best_auc is the running maximum and a save marks every strict improvement
BestAucAndSaves == EpochEnd => /\ RatEq(best_auc, MaxAuc(auc_history))
                               /\ \A e \in 1..epoch : e \in saves <=> RatLess(MaxAuc(SubSeq(auc_history, 1, e - 1)), auc_history[e])

\* C19: after every epoch e, best_auc is the maximum of 0 and the validation AUCs of
\* epochs 1..e, the checkpoint was written in an epoch exactly when that epoch's AUC
\* was strictly greater than the best of all earlier epochs, and the stored
\* checkpoint holds the weights of the earliest epoch that achieved the current best_auc.
C19_BestCheckpoint == EpochEnd => /\ RatEq(best_auc, MaxAuc(auc_history))
                                  /\ \A e \in 1..epoch : e \in saves <=> RatLess(MaxAuc(SubSeq(auc_history, 1, e - 1)), auc_history[e])
                                  /\ (\E e \in 1..epoch : RatEq(auc_history[e], best_auc)) => checkpoint = <<EarliestBest>>

\* in the runs in which some epoch was saved the file holds the earliest best weights
CheckpointWhenSaved == (EpochEnd /\ saves # {}) => checkpoint = <<EarliestBest>>

\* the validation split of the graph holds a single class (or no node)
ValSingleClass == LET val == Selected(data.val_mask) IN ~AucDefined([k \in 1..Len(val) |-> data.y[val[k]]])

\* C20: when the AUC computation of evaluate fails, evaluate raises nothing and
\* returns the AUC 0.0, the epoch writes no checkpoint, and the loop goes on to the
\* next epoch.
C20_AucFailure == /\ [][(pc = "trained" /\ ValSingleClass) => (pc' = "epoch_end" /\ raised' = None /\ auc_history' = Append(auc_history, Zero) /\ UNCHANGED <<best_auc, checkpoint, saves>>)]_vars
                  /\ []((EpochEnd /\ ValSingleClass /\ epoch < MaxEpochs) => ENABLED train_epoch_fullbatch)

\* the second epoch has ended after two failed AUC computations, nothing was saved
C20_Witness == EpochEnd /\ ValSingleClass /\ epoch = 2 /\ auc_history = <<Zero, Zero>> /\ saves = {} /\ checkpoint = <<>>

----------------------------------------------------------------------------
(* The end of main: reload of the best checkpoint and the final steps *)

\* the steps after the training loop have begun
AfterLoop == pc \in {"reloaded", "tested", "reported", "report_failed", "final_scored", "extracted", "done"}

\* C21: the final test evaluation, the classification report and the scoring all run
\* on the weights of the best checkpoint, that of the epoch of this run with the
\* highest validation AUC, reloaded after the last epoch and before any of them.
C21_FinalOnBest == /\ eval_log # <<>> => AfterLoop
                   /\ \A k \in 1..Len(eval_log) : eval_log[k].weights = EarliestBest

\* in the runs that saved a checkpoint the final steps do run on the best weights
FinalOnBestWhenSaved == saves # {} => \A k \in 1..Len(eval_log) : AfterLoop /\ eval_log[k].weights = EarliestBest

FinalOnBestWitness == saves # {} /\ Len(eval_log) = 3

\* C28: for every run with at least one epoch, at the final reload a checkpoint
\* written during this same run exists, so the reload neither fails for lack of the
\* file nor picks up a checkpoint of an earlier run.
C28_CheckpointOfThisRun == pc \in {"reloaded", "reload_failed"} => /\ pc = "reloaded"
                                                                     /\ saves # {}
                                                                     /\ checkpoint[1] \in 1..MaxEpochs

\* C29: for every graph with at least one node the train mask selects at least one
\* node, so the accuracy correct / total of the training step never divides by zero,
\* also when every class has fewer than two members.
C29_TrainMaskNonEmpty == (pc # "start" /\ data.num_nodes >= 1) => /\ \E i \in AllNodes : data.train_mask[i]
                                                                   /\ raised # "ZeroDivisionError"

\* the step is the optimizer step of train_epoch_fullbatch
OptimizerStep == pc \in {"loaded", "epoch_end"} /\ pc' \in {"trained", "train_failed"} /\ epoch' = epoch + 1 /\ \E k \in 1..Len(ops') : ops'[k].op = "step"

\* the step is the reload of the best checkpoint after the loop
FinalReload == pc = "epoch_end" /\ epoch = MaxEpochs /\ pc' = "reloaded" /\ checkpoint # <<>> /\ weights' = checkpoint[1]

\* the step is a call of evaluate, compute_suspicion_scores, predict_proba or
\* get_embeddings
InferenceCall == \/ pc = "trained" /\ pc' = "epoch_end"
                 \/ pc = "reloaded" /\ pc' = "tested"
                 \/ pc = "reported" /\ pc' = "final_scored"
                 \/ Len(ops') = Len(ops) + 1 /\ ops'[Len(ops')].op \in {"predict_proba", "get_embeddings"}

\* C25: the model's weights are changed only by the optimizer step inside
\* train_epoch_fullbatch and by the final reload of the best checkpoint; evaluate,
\* compute_suspicion_scores, predict_proba and get_embeddings leave them unchanged.
C25_WeightsChange == [][/\ weights' # weights => (OptimizerStep \/ FinalReload)
                        /\ InferenceCall => weights' = weights]_vars

\* the four inference routines have all run on a trained model
C25_Witness == /\ pc = "done"
               /\ weights \in 1..MaxEpochs
               /\ Len(eval_log) = 3
               /\ ~NotCalled("predict_proba")
               /\ ~NotCalled("get_embeddings")

\* C26: each epoch performs, in this order and exactly once each: zeroing of the
\* gradients, one forward pass over the whole graph in training mode, the loss over
\* the train-mask nodes only, backpropagation, and one optimizer step; the validation
\* evaluation of that epoch runs in inference mode strictly after the optimizer step.
C26_EpochOrder == pc \in {"trained", "epoch_end"} => /\ Len(ops) = (IF pc = "trained" THEN 5 ELSE 6)
                                                     /\ [k \in 1..5 |-> ops[k].op] = <<"zero_grad", "forward", "loss", "backward", "step">>
                                                     /\ \A k \in 1..5 : ops[k].mode = "train"
                                                     /\ ops[2].nodes = AllNodes
                                                     /\ ops[3].nodes = {i \in AllNodes : data.train_mask[i]}
                                                     /\ weights = epoch
                                                     /\ pc = "epoch_end" => ops[6] = [op |-> "forward", mode |-> "eval", nodes |-> AllNodes]
                                                     /\ pc = "epoch_end" => Len(auc_history) = epoch

\* the second epoch has ended on a graph whose train mask is a proper part of the nodes
C26_Witness == /\ pc = "epoch_end"
               /\ epoch = 2
               /\ ops[3].nodes # {}
               /\ ops[3].nodes # AllNodes
               /\ mode = "eval"

\* C24: after load_transaction_graph returns, no later step (train_epoch_fullbatch,
\* evaluate, compute_suspicion_scores, extract_2hop_subgraph) changes the feature
\* matrix, the edge list, the label vector, the masks or the wallet/index maps.
C24_GraphFrozen == [][pc # "start" => UNCHANGED <<data, features, wallet_to_idx, idx_to_wallet>>]_vars

\* training, evaluation, scoring and an extraction that drops an edge's endpoint
\* indices below the original ones have all run
C24_Witness == /\ pc = "extracted"
               /\ Len(eval_log) = 3
               /\ epoch = MaxEpochs
               /\ subgraph.target \in DOMAIN wallet_to_idx
               /\ Len(subgraph.edges) = 1
               /\ Len(data.edge_index[1]) = 1

\* the checkpoint on disk was saved from a model of another input dimensionality
Mismatched == checkpoint # <<>> /\ InputDim(checkpoint[1]) # data.x_shape[2]

\* C22: loading a checkpoint into a model constructed with a different input feature
\* dimensionality fails with an error; it never silently truncates or pads the
\* weights, and no inference is performed with a mismatched checkpoint.
C22_MismatchFails == /\ [][(pc = "epoch_end" /\ epoch = MaxEpochs /\ Mismatched) => (pc' = "reload_failed" /\ raised' = "RuntimeError" /\ weights' = weights /\ eval_log' = eval_log)]_vars
                     /\ [][pc = "reload_failed" => pc' = "reload_failed"]_vars
                     /\ [](pc # "start" => \A k \in 1..Len(eval_log) : InputDim(eval_log[k].weights) = data.x_shape[2])

\* the reload of a mismatched checkpoint has been refused
C22_Witness == pc = "reload_failed" /\ raised = "RuntimeError" /\ Mismatched /\ weights = MaxEpochs /\ eval_log = <<>>

----------------------------------------------------------------------------
(* The upload handler's temporary files *)

\* the handler has answered
Responded == response # <<>>

\* C30: on every return path of the upload handler taken after the uploaded file was
\* saved (success, missing sheet, missing best_model.pt, any exception), every
\* temporary file created so far has been removed before the response is returned.
C30_TempFilesRemoved == (Responded /\ UploadedXlsx \in paths) => disk = {}

\* the success return and the except clause do remove every file created so far
CleanedWhenHandled == (pc \in {"returned", "returned_error"} /\ UploadedXlsx \in paths) => disk = {}

CleanedWitness == pc = "returned_error" /\ raised = "RuntimeError" /\ "temp_labels.csv" \in paths

\* the success path has created all five files and removed them
UploadSucceeded == pc = "returned" /\ response = <<200>> /\ paths = TempFiles /\ disk = {}

----------------------------------------------------------------------------
(* Repeated calls of the split *)

\* C23: the split is deterministic under a caller-supplied seed: two calls of the
\* split routine with the same label vector, the same ratios and the same seed return
\* identical train, val and test masks.
C23_SplitDeterministic == pc = "split_twice" => split_again = split_out

\* the two calls agree whenever no class has two members or more to shuffle
SplitOfSingletons == (pc = "split_twice" /\ \A label \in Labels : Cardinality(ClassOf(split_in.y, label)) <= 1) => split_again = split_out

SplitOfSingletonsWitness == pc = "split_twice" /\ Cardinality({split_in.y[i] : i \in DOMAIN split_in.y}) = 2 /\ \A label \in Labels : Cardinality(ClassOf(split_in.y, label)) <= 1

----------------------------------------------------------------------------
(* The learning-rate schedule *)

\* the AUC of epoch k is not above the best AUC of the epochs before it
NoImprovement(h, k) == k > 1 /\ ~RatLess(MaxAuc(SubSeq(h, 1, k - 1)), h[k])

\* the learning rate is halved in this step
Halving == lr' # lr

\* C27: across the epochs of one run the learning rate never increases; it changes
\* only by being halved, and a halving happens only after the validation AUC has
\* failed to improve on its best value for the whole patience window of 5 consecutive
\* epochs, after which the count of non-improving epochs starts again.
C27_HalvingOnPlateau == [][/\ ~RatLess(lr, lr')
                           /\ Halving => /\ RatEq(lr', RatMul(lr, Half))
                                         /\ Len(auc_history') >= Patience + 1
                                         /\ \A k \in (Len(auc_history') - Patience + 1)..Len(auc_history') : NoImprovement(auc_history', k)
                                         /\ num_bad_epochs' = 0]_vars

\* C27 with the scheduler's measure of improvement: the learning rate never
\* increases; it changes only by being halved, and a halving happens only after the
\* validation AUC has failed to improve on its best value by more than the relative
\* threshold of 1e-4 for the whole patience window of 5 consecutive epochs, after
\* which the count of non-improving epochs starts again.
C27_HalvingOnThresholdPlateau == [][/\ ~RatLess(lr, lr')
                                    /\ Halving => /\ RatEq(lr', RatMul(lr, Half))
                                                  /\ Len(auc_history') >= Patience + 1
                                                  /\ sched_best' = sched_best
                                                  /\ \A k \in (Len(auc_history') - Patience + 1)..Len(auc_history') : ~is_better(auc_history'[k], sched_best)
                                                  /\ num_bad_epochs' = 0]_vars

\* the rate has been halved after a plateau in which one epoch rose above the best
\* AUC by less than the threshold, and the count has started again
C27_Witness == /\ RatEq(lr, RatMul(InitialLr, Half))
               /\ num_bad_epochs = 1
               /\ \E k \in 2..(Len(auc_history) - 1) : ~NoImprovement(auc_history, k) /\ ~is_better(auc_history[k], sched_best)

============================================================================
